---- MODULE Spec2Model ----
(***************************************************************************)
(* Two-stage hierarchical clustering (src/fencengjulei2.0.py) fed by the   *)
(* feature extractor (src/data_preprocessor3.py).                          *)
(*                                                                         *)
(* The numeric library calls (KMeans.fit_predict, silhouette_score, the    *)
(* other two scores, StandardScaler) are not code of this repository: each *)
(* is modelled by its contract, i.e. the inputs it rejects with an         *)
(* exception and a nondeterministic choice over the results it may return. *)
(* Silhouette values are the integers k in -SilDen..SilDen, read k/SilDen. *)
(* Weights are exact rationals <<num, den>>; <<0, 0>> is NaN (0/0).        *)
(***************************************************************************)
EXTENDS Integers, Sequences, FiniteSets, TLC

\* ------------------------------------------------------------- bounds
MaxN == 4          \* samples in the feature files: 0..MaxN
MaxK == 3          \* stage1_k: 1..MaxK
MaxMin == 3        \* min_cluster_size: 1..MaxMin
SilDen == 1        \* silhouette values are k/SilDen, k in -SilDen..SilDen
MaxD2 == 6         \* Layer-2 width tried for apply_weight_layer2: 1..MaxD2
MaxNum == 3        \* weight_centroid = p/q with p in 0..MaxNum
MaxDen == 3        \* ... and q in 1..MaxDen
MaxRows == 3       \* rows of the matrices handed to StandardScaler: 0..MaxRows
MaxVal == 1        \* their cell values: 0..MaxVal
MaxFiles == 3      \* .png files a dataset directory may hold: ids 1..MaxFiles

VARIABLES
  pc,               \* position of the run
  err,              \* the call that raised, "" while none has
  l1file, l2file,   \* column names of layer1_features.npy / layer2_features.npy
  n_rows,           \* rows of both files
  stage1_k, weight_centroid, min_cluster_size,   \* arguments of clustering()
  layer1_features,  \* self.layer1_features: the columns kept for Stage 1
  layer2_features,  \* self.layer2_features: the columns kept for Stage 2
  n_samples,        \* self.n_samples (-1: None)
  stage1_labels,    \* <<>>: not computed
  stage2_labels, current_label,
  writes,           \* per sample: how many times Stage 2 has written its label
  weights,          \* the weight vector of apply_weight_layer2
  todo,             \* stage-1 ids the for loop has still to visit
  cluster_indices, best_k2, best_sil, best_labels,  \* locals of the loop body
  ginfo,            \* per stage-1 id: what the loop did with the group
  result,           \* what clustering() returned, <<>> before
  l1data, l2data,   \* cell values of the two feature matrices, as sequences of
                    \* columns (<<>>: the run is followed without its values)
  layer1_scaled, layer2_scaled,   \* self.layer1_scaled / self.layer2_scaled
  combined_scaled,  \* combined_scaled of clustering()
  input_dir,        \* provider: self.input_dir after the lookup, "" for None
  png_files,        \* provider: the .png files of the directory (ids; the id
                    \* order is the file-name order)
  image_files, file_idx,  \* provider: the sorted listing and the loop's idx
  hu_moments_list, areas_list, centroids_normalized_list, density_list,
                    \* provider: per list, the image each entry was taken from
  provided          \* provider: <<layer1 rows, layer2 rows>> returned, <<>> before

vars == <<pc, err, l1file, l2file, n_rows, stage1_k, weight_centroid,
          min_cluster_size, layer1_features, layer2_features, n_samples,
          stage1_labels, stage2_labels, current_label, writes, weights, todo,
          cluster_indices, best_k2, best_sil, best_labels, ginfo, result,
          l1data, l2data, layer1_scaled, layer2_scaled, combined_scaled,
          input_dir, png_files, image_files, file_idx, hu_moments_list, areas_list,
          centroids_normalized_list, density_list, provided>>

inputVars == <<l1file, l2file, n_rows, stage1_k, weight_centroid, min_cluster_size>>
loadVars == <<layer1_features, layer2_features, n_samples>>
loopVars == <<cluster_indices, best_k2, best_sil, best_labels>>
scaleVars == <<l1data, l2data, layer1_scaled, layer2_scaled, combined_scaled>>
listVars == <<hu_moments_list, areas_list, centroids_normalized_list, density_list>>
extractVars == <<input_dir, png_files, image_files, file_idx, listVars, provided>>

None == <<>>
NoneInt == 0 - 1

\* ------------------------------------------------- feature provider
\* process_dataset: layer1 = 7 Hu moments + area, layer2 = 16 densities + centroid
HuColumns == <<"hu1", "hu2", "hu3", "hu4", "hu5", "hu6", "hu7">>
GridColumns == [i \in 1..16 |-> "density"]
Layer1Columns == HuColumns \o <<"area">>
Layer2Columns == GridColumns \o <<"cx", "cy">>

\* Feature files the core may be pointed at: the provider's, and files of
\* another width (np.load accepts any 2-D array).
Layer1Files == {Layer1Columns, SubSeq(HuColumns, 1, 5)}
Layer2Files == {Layer2Columns, <<"density", "cx", "cy">>}
\* the pairs of files of a run: at most one of the two has another width
FeatureFiles == {f \in Layer1Files \X Layer2Files : f[1] = Layer1Columns \/ f[2] = Layer2Columns}

\* ---------------------------------------------------------- rationals
RECURSIVE Gcd(_, _)
Gcd(a, b) == IF b = 0 THEN a ELSE Gcd(b, a % b)

NaN == <<0, 0>>
IsNaN(r) == r[2] = 0
Rat(n, d) == IF d = 0 THEN NaN ELSE LET g == Gcd(n, d) IN <<n \div g, d \div g>>
RatAdd(a, b) == IF IsNaN(a) \/ IsNaN(b) THEN NaN
                ELSE Rat(a[1] * b[2] + b[1] * a[2], a[2] * b[2])
RatMul(a, b) == IF IsNaN(a) \/ IsNaN(b) THEN NaN ELSE Rat(a[1] * b[1], a[2] * b[2])
\* numpy: x / 0 is nan for x = 0 (the only case a weight_centroid >= 0 produces)
RatDiv(a, b) == IF IsNaN(a) \/ IsNaN(b) \/ b[1] = 0 THEN NaN
                ELSE Rat(a[1] * b[2], a[2] * b[1])

RECURSIVE RatSum(_)
RatSum(s) == IF s = <<>> THEN <<0, 1>> ELSE RatAdd(Head(s), RatSum(Tail(s)))

\* ------------------------------------------------ apply_weight_layer2
\* the value of a rational, as numpy sees it (2/2 is 1)
Val(r) == Rat(r[1], r[2])
\* weights = np.ones(d2)
Ones(d2) == [i \in 1..d2 |-> <<1, 1>>]
\* weights[-2:] = weight_centroid  (the last two entries, or all when d2 < 2)
AssignCentroidWeight(w, wc) == [i \in 1..Len(w) |-> IF i > Len(w) - 2 THEN wc ELSE w[i]]
\* faulty variant: only the last entry is given the centroid weight
AssignCentroidWeight_LastOnly(w, wc) == [i \in 1..Len(w) |-> IF i > Len(w) - 1 THEN wc ELSE w[i]]
\* faulty variant: no normalization
Normalize_Skipped(w) == w
\* weights = weights / np.sum(weights)
Normalize(w) == [i \in 1..Len(w) |-> RatDiv(w[i], RatSum(w))]
WeightVector(d2, wc) == Normalize(AssignCentroidWeight(Ones(d2), wc))

\* ------------------------------------------------------ numpy helpers
Min(a, b) == IF a < b THEN a ELSE b
\* a[:, :n]
Take(s, n) == SubSeq(s, 1, Min(n, Len(s)))
\* layer1_full[:, :7]
HuCount == 7
\* np.zeros(n, dtype=int)
Zeros(n) == [i \in 1..n |-> 0]
Distinct(labels) == {labels[i] : i \in DOMAIN labels}

RECURSIVE Ascending(_)
Ascending(S) == IF S = {} THEN <<>>
                ELSE LET m == CHOOSE x \in S : \A y \in S : x <= y
                     IN <<m>> \o Ascending(S \ {m})
RECURSIVE Descending(_)
Descending(S) == IF S = {} THEN <<>>
                 ELSE LET m == CHOOSE x \in S : \A y \in S : x >= y
                      IN <<m>> \o Descending(S \ {m})
\* faulty variant: the distinct values in descending order
Unique_Descending(labels) == Descending(Distinct(labels))
\* np.unique(labels): the distinct values, ascending
Unique(labels) == Ascending(Distinct(labels))
\* np.where(labels == c)[0]: the positions holding c, ascending
Indices(labels, c) == SelectSeq([i \in 1..Len(labels) |-> i], LAMBDA i : labels[i] = c)

\* ------------------------------------------------ library contracts
\* StandardScaler.fit_transform raises ValueError on 0 samples or 0 features
ScalerRejects(n, cols) == n = 0 \/ cols = 0
\* KMeans.fit raises ValueError when n_samples < n_clusters
KMeansRejects(n, k) == n < k
\* KMeans(n_clusters=k).fit_predict on n accepted samples: one label in 0..k-1
\* per sample (fewer than k distinct labels when samples coincide)
KMeansLabelings(n, k) == [1..n -> 0..(k - 1)]
\* The 2-way labelings of a group: every one for a group of at most MaxN
\* samples. A larger group is given representative one-cut labelings
\* (positions 1..t in sub-cluster 0, the rest in sub-cluster 1): a single
\* sub-cluster of either id, one outlier on either side, an even split.
CutPoints(n) == {0, 1, n \div 2, n - 1, n}
TwoWayLabelings(n) ==
  IF n <= MaxN THEN KMeansLabelings(n, 2)
  ELSE {[i \in 1..n |-> IF i <= t THEN 0 ELSE 1] : t \in CutPoints(n)}
\* silhouette_score, davies_bouldin_score, calinski_harabasz_score raise
\* ValueError unless 2 <= number of distinct labels <= n_samples - 1
ScoreDefined(labels) ==
  LET c == Cardinality(Distinct(labels)) IN 2 <= c /\ c <= Len(labels) - 1
SilRange == (0 - SilDen)..SilDen

\* ----------------------------------------------------- clustering()
\* the literal -1 of best_sil = -1 and test_sil = -1
Sentinel == 0 - SilDen
\* faulty variant: best_sil starts at 0
InitialBestSil_Zero == Sentinel + SilDen
\* best_sil = -1  (line 87)
InitialBestSil == Sentinel
\* current_label += 1  (line 83)
AdvanceSmall(cur) == cur + 1
\* faulty variant: the counter advances by 1 whatever k2 was chosen
AdvanceSplit_ByOne(cur, k2) == cur + 1
\* current_label += best_k2  (line 108)
AdvanceSplit(cur, k2) == cur + k2
\* if test_sil > best_sil
Better(test, best) == test > best
\* faulty variant: cluster_size <= min_cluster_size
IsTooSmall_Inclusive(cluster_size, min) == cluster_size <= min
\* if cluster_size < min_cluster_size
IsTooSmall(cluster_size, min) == cluster_size < min
\* faulty variant: only the first member of the group is labelled
AssignShared_First(labels, idx, cur) ==
  [i \in 1..Len(labels) |-> IF idx # <<>> /\ idx[1] = i THEN cur ELSE labels[i]]
\* stage2_labels[cluster_indices] = current_label
AssignShared(labels, idx, cur) ==
  [i \in 1..Len(labels) |-> IF \E j \in 1..Len(idx) : idx[j] = i THEN cur ELSE labels[i]]
\* faulty variant: the sub-cluster id is not added
AssignSub_Flat(labels, idx, cur, sub) ==
  [i \in 1..Len(labels) |-> IF \E j \in 1..Len(idx) : idx[j] = i THEN cur ELSE labels[i]]
\* for i, idx in enumerate(cluster_indices): stage2_labels[idx] = current_label + best_labels[i]
AssignSub(labels, idx, cur, sub) ==
  [i \in 1..Len(labels) |->
     IF \E j \in 1..Len(idx) : idx[j] = i
     THEN cur + sub[CHOOSE j \in 1..Len(idx) : idx[j] = i]
     ELSE labels[i]]

\* one more write of stage2_labels[i] for every position i listed in idx
CountWrites(w, idx) ==
  [i \in 1..Len(w) |-> w[i] + Cardinality({j \in 1..Len(idx) : idx[j] = i})]

NoSil == SilDen + 1
\* ginfo[g]: path taken, counter before and after, k2 candidates evaluated,
\* silhouette and labels of the 2-way split, chosen k2
NoInfo == [path |-> "pending", start |-> NoneInt, stop |-> NoneInt, evals |-> <<>>,
           sil |-> NoSil, k2 |-> 0, sub |-> <<>>]

Raise(e) == pc' = "error" /\ err' = e

\* load_data
LoadData ==
  /\ pc = "start"
  /\ layer1_features' = Take(l1file, HuCount)
  /\ layer2_features' = l2file
  /\ n_samples' = n_rows
  /\ IF ScalerRejects(n_rows, Len(Take(l1file, HuCount))) \/ ScalerRejects(n_rows, Len(l2file))
     THEN Raise("StandardScaler:39")
     ELSE pc' = "loaded" /\ err' = err
  /\ UNCHANGED <<inputVars, extractVars, scaleVars, stage1_labels, stage2_labels, writes, current_label, weights, todo,
                 loopVars, ginfo, result>>

\* clustering, lines 59-71: Stage-1 k-means and the set-up of Stage 2
Stage1 ==
  /\ pc = "loaded"
  /\ IF KMeansRejects(n_samples, stage1_k)
     THEN /\ Raise("KMeans:60")
          /\ UNCHANGED <<stage1_labels, stage2_labels, writes, current_label, weights, todo, ginfo>>
     ELSE \E labels \in KMeansLabelings(n_samples, stage1_k) :
          /\ stage1_labels' = labels
          /\ stage2_labels' = Zeros(n_samples)
          /\ writes' = Zeros(n_samples)
          /\ current_label' = 0
          /\ weights' = WeightVector(Len(layer2_features), weight_centroid)
          /\ todo' = Unique(labels)
          /\ ginfo' = [g \in 0..(stage1_k - 1) |-> NoInfo]
          /\ pc' = "loop" /\ err' = err
  /\ UNCHANGED <<inputVars, extractVars, scaleVars, loadVars, loopVars, result>>

\* lines 73-84: a group below min_cluster_size
SmallGroup ==
  /\ pc = "loop" /\ todo # <<>>
  /\ LET cid == Head(todo)
         idx == Indices(stage1_labels, cid)
     IN /\ IsTooSmall(Len(idx), min_cluster_size)
        /\ cluster_indices' = idx
        /\ stage2_labels' = AssignShared(stage2_labels, idx, current_label)
        /\ writes' = CountWrites(writes, idx)
        /\ current_label' = AdvanceSmall(current_label)
        /\ ginfo' = [ginfo EXCEPT ![cid] = [@ EXCEPT !.path = "small",
                        !.start = current_label, !.stop = AdvanceSmall(current_label)]]
  /\ todo' = Tail(todo)
  /\ UNCHANGED <<pc, err, inputVars, extractVars, scaleVars, loadVars, stage1_labels, weights,
                 best_k2, best_sil, best_labels, result>>

\* lines 73-88: a group of at least min_cluster_size enters the k2 loop
BeginSplit ==
  /\ pc = "loop" /\ todo # <<>>
  /\ LET cid == Head(todo)
         idx == Indices(stage1_labels, cid)
     IN /\ ~IsTooSmall(Len(idx), min_cluster_size)
        /\ cluster_indices' = idx
        /\ ginfo' = [ginfo EXCEPT ![cid] = [@ EXCEPT !.path = "split", !.start = current_label]]
  /\ best_k2' = 1 /\ best_sil' = InitialBestSil /\ best_labels' = None
  /\ pc' = "k2_1"
  /\ UNCHANGED <<err, inputVars, extractVars, scaleVars, loadVars, stage1_labels, stage2_labels, writes, current_label,
                 weights, todo, result>>

\* lines 90-93, 99-102: the candidate k2 = 1
TryK1 ==
  /\ pc = "k2_1"
  /\ LET test_labels == Zeros(Len(cluster_indices))
         test_sil == Sentinel
         take == Better(test_sil, best_sil)
     IN /\ best_sil' = IF take THEN test_sil ELSE best_sil
        /\ best_k2' = IF take THEN 1 ELSE best_k2
        /\ best_labels' = IF take THEN test_labels ELSE best_labels
  /\ ginfo' = [ginfo EXCEPT ![Head(todo)] = [@ EXCEPT !.evals = Append(@, 1)]]
  /\ pc' = "k2_2"
  /\ UNCHANGED <<err, inputVars, extractVars, scaleVars, loadVars, stage1_labels, stage2_labels, writes, current_label,
                 weights, todo, cluster_indices, result>>

\* lines 94-102: the candidate k2 = 2
TryK2 ==
  /\ pc = "k2_2"
  /\ IF KMeansRejects(Len(cluster_indices), 2)
     THEN Raise("KMeans:96") /\ UNCHANGED <<best_k2, best_sil, best_labels, ginfo>>
     ELSE \E test_labels \in TwoWayLabelings(Len(cluster_indices)) :
          IF ~ScoreDefined(test_labels)
          THEN Raise("silhouette_score:97") /\ UNCHANGED <<best_k2, best_sil, best_labels, ginfo>>
          ELSE \E test_sil \in SilRange :
               LET take == Better(test_sil, best_sil)
               IN /\ best_sil' = IF take THEN test_sil ELSE best_sil
                  /\ best_k2' = IF take THEN 2 ELSE best_k2
                  /\ best_labels' = IF take THEN test_labels ELSE best_labels
                  /\ ginfo' = [ginfo EXCEPT ![Head(todo)] =
                                 [@ EXCEPT !.evals = Append(@, 2), !.sil = test_sil,
                                           !.sub = test_labels,
                                           !.k2 = IF take THEN 2 ELSE best_k2]]
                  /\ pc' = "assign" /\ err' = err
  /\ UNCHANGED <<inputVars, extractVars, scaleVars, loadVars, stage1_labels, stage2_labels, writes, current_label,
                 weights, todo, cluster_indices, result>>

\* lines 104-108: the chosen sub-labels become global labels
AssignLabels ==
  /\ pc = "assign"
  /\ IF best_labels = None
     THEN \* best_labels[i] on None: TypeError
          /\ Raise("TypeError:107")
          /\ UNCHANGED <<stage2_labels, writes, current_label, todo, ginfo>>
     ELSE /\ stage2_labels' = AssignSub(stage2_labels, cluster_indices, current_label, best_labels)
          /\ writes' = CountWrites(writes, cluster_indices)
          /\ current_label' = AdvanceSplit(current_label, best_k2)
          /\ ginfo' = [ginfo EXCEPT ![Head(todo)] =
                         [@ EXCEPT !.stop = AdvanceSplit(current_label, best_k2)]]
          /\ todo' = Tail(todo)
          /\ pc' = "loop" /\ err' = err
  /\ UNCHANGED <<inputVars, extractVars, scaleVars, loadVars, stage1_labels, weights, loopVars, result>>

\* lines 110-128: the quality report and the return
Evaluate ==
  /\ pc = "loop" /\ todo = <<>>
  /\ IF ~ScoreDefined(stage2_labels)
     THEN Raise("silhouette_score:113") /\ result' = result
     ELSE \E silhouette \in SilRange :
          /\ result' = <<stage2_labels, silhouette, "finite", "finite",
                         Cardinality(Distinct(stage2_labels))>>
          /\ pc' = "returned" /\ err' = err
  /\ UNCHANGED <<inputVars, extractVars, scaleVars, loadVars, stage1_labels, stage2_labels, writes, current_label,
                 weights, todo, loopVars, ginfo>>

\* the run is followed without the cell values of its matrices
NoValues ==
  /\ l1data = None /\ l2data = None
  /\ layer1_scaled = None /\ layer2_scaled = None /\ combined_scaled = None

\* the feature files are taken as they are on disk: no provider run is followed
NoExtraction ==
  /\ input_dir = "" /\ png_files = {} /\ image_files = None /\ file_idx = NoneInt
  /\ hu_moments_list = None /\ areas_list = None
  /\ centroids_normalized_list = None /\ density_list = None
  /\ provided = None

\* ------------------------------------------------------ specification
\* run(): the feature files on disk and the arguments of clustering()
Init ==
  /\ pc = "start" /\ err = ""
  /\ \E f \in FeatureFiles : l1file = f[1] /\ l2file = f[2]
  /\ n_rows \in 0..MaxN
  /\ stage1_k \in 1..MaxK
  /\ weight_centroid = <<1, 2>>
  /\ min_cluster_size \in 1..MaxMin
  /\ layer1_features = None /\ layer2_features = None /\ n_samples = NoneInt
  /\ stage1_labels = None /\ stage2_labels = None /\ current_label = NoneInt
  /\ writes = None
  /\ weights = None /\ todo = <<>>
  /\ cluster_indices = None /\ best_k2 = NoneInt /\ best_sil = NoSil /\ best_labels = None
  /\ ginfo = <<>>
  /\ result = None
  /\ NoValues
  /\ NoExtraction

Next == LoadData \/ Stage1 \/ SmallGroup \/ BeginSplit \/ TryK1 \/ TryK2
        \/ AssignLabels \/ Evaluate

Spec == Init /\ [][Next]_vars

\* The end-to-end scenario: 90 samples whose Stage-1 groups have 40, 35 and 15
\* members, min_cluster_size = 15 (and, beside it, 16). The run is taken up
\* after Stage 1 (line 71), with the three sizes given to the stage-1 ids in
\* every order, each group a block of consecutive samples.
ScenarioSizes == <<40, 35, 15>>
ScenarioMinClusterSize == 15
RECURSIVE Blocks(_, _)
Blocks(sizes, g) == IF sizes = <<>> THEN <<>>
                    ELSE [i \in 1..Head(sizes) |-> g] \o Blocks(Tail(sizes), g + 1)
ScenarioLabelings ==
  {Blocks([g \in 1..Len(ScenarioSizes) |-> ScenarioSizes[p[g]]], 0) :
     p \in Permutations(1..Len(ScenarioSizes))}

InitScenario ==
  /\ pc = "loop" /\ err = ""
  /\ l1file = Layer1Columns /\ l2file = Layer2Columns
  /\ stage1_labels \in ScenarioLabelings
  /\ n_rows = Len(stage1_labels)
  /\ stage1_k = Len(ScenarioSizes)
  /\ weight_centroid = <<1, 2>>
  /\ min_cluster_size \in {ScenarioMinClusterSize, ScenarioMinClusterSize + 1}
  /\ layer1_features = Take(l1file, HuCount) /\ layer2_features = l2file
  /\ n_samples = n_rows
  /\ stage2_labels = Zeros(n_samples) /\ current_label = 0
  /\ writes = Zeros(n_samples)
  /\ weights = WeightVector(Len(layer2_features), weight_centroid)
  /\ todo = Unique(stage1_labels)
  /\ cluster_indices = None /\ best_k2 = NoneInt /\ best_sil = NoSil /\ best_labels = None
  /\ ginfo = [g \in 0..(stage1_k - 1) |-> NoInfo]
  /\ result = None
  /\ NoValues
  /\ NoExtraction

NextScenario == SmallGroup \/ BeginSplit \/ TryK1 \/ TryK2 \/ AssignLabels \/ Evaluate

SpecScenario == InitScenario /\ [][NextScenario]_vars

\* apply_weight_layer2 on its own: a Layer-2 matrix of any width 1..MaxD2 and
\* any weight_centroid p/q >= 0
WeightChoices == {<<p, q>> : p \in 0..MaxNum, q \in 1..MaxDen}
Layer2OfWidth(d) == [i \in 1..d |-> IF i > d - 2 THEN "centroid" ELSE "density"]

InitWeights ==
  /\ pc = "apply_weight" /\ err = ""
  /\ l1file = Layer1Columns
  /\ l2file \in {Layer2OfWidth(d) : d \in 1..MaxD2}
  /\ n_rows = 1
  /\ stage1_k = 1
  /\ weight_centroid \in WeightChoices
  /\ min_cluster_size = 1
  /\ layer1_features = Take(l1file, HuCount) /\ layer2_features = l2file
  /\ n_samples = n_rows
  /\ stage1_labels = None /\ stage2_labels = None /\ current_label = NoneInt
  /\ writes = None
  /\ weights = None /\ todo = <<>>
  /\ cluster_indices = None /\ best_k2 = NoneInt /\ best_sil = NoSil /\ best_labels = None
  /\ ginfo = <<>>
  /\ result = None
  /\ NoValues
  /\ NoExtraction

ApplyWeight ==
  /\ pc = "apply_weight"
  /\ weights' = WeightVector(Len(layer2_features), weight_centroid)
  /\ pc' = "weighted"
  /\ UNCHANGED <<err, inputVars, extractVars, scaleVars, loadVars, stage1_labels, stage2_labels, writes, current_label,
                 todo, loopVars, ginfo, result>>

NextWeights == ApplyWeight

SpecWeights == InitWeights /\ [][NextWeights]_vars

\* ------------------------------------------------------ StandardScaler
\* A cell is <<c, s2>>: the number c / sqrt(s2), c and s2 rationals.  A raw cell
\* x is <<x, 1>>; a cell with s2 = 0 is a division by zero (nan or inf).
RatSub(a, b) == IF IsNaN(b) THEN NaN ELSE RatAdd(a, <<0 - b[1], b[2]>>)
RawColumn(col) == [i \in 1..Len(col) |-> <<Rat(col[i], 1), <<1, 1>>>>]
RawMatrix(m) == [j \in 1..Len(m) |-> RawColumn(m[j])]
Finite(cell) == ~IsNaN(cell[1]) /\ ~IsNaN(cell[2]) /\ cell[2][1] # 0
IsZero(cell) == Finite(cell) /\ cell[1][1] = 0

\* StandardScaler.fit on one column: mean_ and var_ (the cells of a column
\* share their s2; numerators and s2 are kept apart)
Numerators(col) == [i \in 1..Len(col) |-> col[i][1]]
Mean(nums) == RatDiv(RatSum(nums), <<Len(nums), 1>>)
Centred(nums) == [i \in 1..Len(nums) |-> RatSub(nums[i], Mean(nums))]
Squares(nums) == [i \in 1..Len(nums) |-> RatMul(nums[i], nums[i])]
Variance(col) ==
  LET v == Mean(Squares(Centred(Numerators(col))))
  IN IF v[1] = 0 THEN v ELSE RatDiv(v, col[1][2])
\* faulty variant: the variance is used as it is, zero included
HandleZeros_Absent(var) == var
\* scale_: a zero variance is replaced by 1 before the division
HandleZeros(var) == IF var[1] = 0 THEN <<1, 1>> ELSE var
\* StandardScaler.transform on one column: (x - mean_) / scale_
StandardizeColumn(col) ==
  LET d == Centred(Numerators(col))
      scale2 == HandleZeros(Variance(col))
  IN [i \in 1..Len(col) |-> <<d[i], RatMul(col[i][2], scale2)>>]
\* StandardScaler().fit_transform(X), X a sequence of columns
FitTransform(m) == [j \in 1..Len(m) |-> StandardizeColumn(m[j])]
Rows(m) == IF m = <<>> THEN 0 ELSE Len(m[1])

\* the three standardizations of a run on their own: a one-column Layer-1
\* matrix and a one-column Layer-2 matrix of 0..MaxRows rows
Columns(n) == [1..n -> 0..MaxVal]

InitStandardize ==
  /\ pc = "scaler1" /\ err = ""
  /\ l1file = <<"hu1">> /\ l2file = <<"cx">>
  /\ n_rows \in 0..MaxRows
  /\ stage1_k = 1
  /\ weight_centroid = <<1, 2>>
  /\ min_cluster_size = 1
  /\ layer1_features = l1file /\ layer2_features = l2file
  /\ n_samples = n_rows
  /\ stage1_labels = None /\ stage2_labels = None /\ current_label = NoneInt
  /\ writes = None
  /\ weights = None /\ todo = <<>>
  /\ cluster_indices = None /\ best_k2 = NoneInt /\ best_sil = NoSil /\ best_labels = None
  /\ ginfo = <<>>
  /\ result = None
  /\ l1data \in {<<c>> : c \in Columns(n_rows)}
  /\ l2data \in {<<c>> : c \in Columns(n_rows)}
  /\ layer1_scaled = None /\ layer2_scaled = None /\ combined_scaled = None
  /\ NoExtraction

\* load_data, lines 38-39
Scaler1 ==
  /\ pc = "scaler1"
  /\ IF ScalerRejects(Rows(l1data), Len(l1data))
     THEN Raise("StandardScaler:39") /\ layer1_scaled' = layer1_scaled
     ELSE /\ layer1_scaled' = FitTransform(RawMatrix(l1data))
          /\ pc' = "scaler2" /\ err' = err
  /\ UNCHANGED <<inputVars, extractVars, l1data, l2data, layer2_scaled, combined_scaled, loadVars,
                 stage1_labels, stage2_labels, writes, current_label, weights, todo,
                 loopVars, ginfo, result>>

\* load_data, lines 41-42
Scaler2 ==
  /\ pc = "scaler2"
  /\ IF ScalerRejects(Rows(l2data), Len(l2data))
     THEN Raise("StandardScaler:42") /\ layer2_scaled' = layer2_scaled
     ELSE /\ layer2_scaled' = FitTransform(RawMatrix(l2data))
          /\ pc' = "combine" /\ err' = err
  /\ UNCHANGED <<inputVars, extractVars, l1data, l2data, layer1_scaled, combined_scaled, loadVars,
                 stage1_labels, stage2_labels, writes, current_label, weights, todo,
                 loopVars, ginfo, result>>

\* clustering, lines 110-111
CombinedScaler ==
  /\ pc = "combine"
  /\ LET combined_features == layer1_scaled \o layer2_scaled
     IN IF ScalerRejects(Rows(combined_features), Len(combined_features))
        THEN Raise("StandardScaler:111") /\ combined_scaled' = combined_scaled
        ELSE /\ combined_scaled' = FitTransform(combined_features)
             /\ pc' = "scaled" /\ err' = err
  /\ UNCHANGED <<inputVars, extractVars, l1data, l2data, layer1_scaled, layer2_scaled, loadVars,
                 stage1_labels, stage2_labels, writes, current_label, weights, todo,
                 loopVars, ginfo, result>>

NextStandardize == Scaler1 \/ Scaler2 \/ CombinedScaler

SpecStandardize == InitStandardize /\ [][NextStandardize]_vars

\* ----------------------------------------------------- process_dataset
\* image_files.sort() on the listing of a directory
RECURSIVE Sorted(_)
Sorted(S) ==
  IF S = {} THEN <<>>
  ELSE LET lo == CHOOSE x \in S : \A y \in S : x <= y
       IN <<lo>> \o Sorted(S \ {lo})
\* what one pass of the try block can do: run to its end, or raise in
\* extract_hu_moments_and_area, extract_centroid_normalized or
\* extract_density_features
Outcomes == {"ok", "hu_raises", "centroid_raises", "density_raises"}
\* list.append is reached only if no earlier statement of the try block raised
AppendIf(list, reached, fname) == IF reached THEN Append(list, fname) ELSE list
\* np.concatenate([a, b], axis=1) raises unless both are 2-D with equal rows;
\* np.array of an empty list is 1-D
ConcatRaises(a, b) == Len(a) = 0 \/ Len(b) = 0 \/ Len(a) # Len(b)
Concat(a, b) == [i \in 1..Len(a) |-> <<a[i], b[i]>>]

InitExtract ==
  /\ pc = "process_dataset" /\ err = ""
  /\ \E f \in FeatureFiles : l1file = f[1] /\ l2file = f[2]
  /\ n_rows = 0
  /\ stage1_k = 1
  /\ weight_centroid = <<1, 2>>
  /\ min_cluster_size = 1
  /\ layer1_features = None /\ layer2_features = None /\ n_samples = NoneInt
  /\ stage1_labels = None /\ stage2_labels = None /\ current_label = NoneInt
  /\ writes = None
  /\ weights = None /\ todo = <<>>
  /\ cluster_indices = None /\ best_k2 = NoneInt /\ best_sil = NoSil /\ best_labels = None
  /\ ginfo = <<>>
  /\ result = None
  /\ NoValues
  /\ input_dir \in {"", "dataset"}
  /\ png_files \in SUBSET (1..MaxFiles)
  /\ image_files = None /\ file_idx = NoneInt
  /\ hu_moments_list = None /\ areas_list = None
  /\ centroids_normalized_list = None /\ density_list = None
  /\ provided = None

\* process_dataset, lines 120-138
ListDataset ==
  /\ pc = "process_dataset"
  /\ IF input_dir = ""
     THEN /\ Raise("ValueError:124")
          /\ UNCHANGED <<image_files, file_idx, listVars>>
     ELSE /\ image_files' = Sorted(png_files)
          /\ file_idx' = 0
          /\ hu_moments_list' = <<>> /\ areas_list' = <<>>
          /\ centroids_normalized_list' = <<>> /\ density_list' = <<>>
          /\ pc' = "extract" /\ err' = err
  /\ UNCHANGED <<inputVars, scaleVars, input_dir, png_files, provided, loadVars,
                 stage1_labels, stage2_labels, writes, current_label, weights, todo,
                 loopVars, ginfo, result>>

\* process_dataset, lines 145-163: one pass of the loop body
ExtractSample ==
  /\ pc = "extract" /\ file_idx < Len(image_files)
  /\ \E outcome \in Outcomes :
       LET fname == image_files[file_idx + 1] IN
       /\ hu_moments_list' = AppendIf(hu_moments_list, outcome # "hu_raises", fname)
       /\ areas_list' = AppendIf(areas_list, outcome # "hu_raises", fname)
       /\ centroids_normalized_list' =
            AppendIf(centroids_normalized_list, outcome \in {"ok", "density_raises"}, fname)
       /\ density_list' = AppendIf(density_list, outcome = "ok", fname)
  /\ file_idx' = file_idx + 1
  /\ UNCHANGED <<pc, err, inputVars, scaleVars, input_dir, png_files, image_files, provided,
                 loadVars, stage1_labels, stage2_labels, writes, current_label, weights,
                 todo, loopVars, ginfo, result>>

\* process_dataset, lines 165-191
FinishExtraction ==
  /\ pc = "extract" /\ file_idx = Len(image_files)
  /\ IF ConcatRaises(hu_moments_list, areas_list)
     THEN Raise("np.concatenate:178") /\ provided' = provided
     ELSE IF ConcatRaises(density_list, centroids_normalized_list)
     THEN Raise("np.concatenate:183") /\ provided' = provided
     ELSE /\ provided' = <<Concat(hu_moments_list, areas_list),
                           Concat(density_list, centroids_normalized_list)>>
          /\ pc' = "provided" /\ err' = err
  /\ UNCHANGED <<inputVars, scaleVars, input_dir, png_files, image_files, file_idx, listVars,
                 loadVars, stage1_labels, stage2_labels, writes, current_label, weights,
                 todo, loopVars, ginfo, result>>

NextExtract == ListDataset \/ ExtractSample \/ FinishExtraction

SpecExtract == InitExtract /\ [][NextExtract]_vars

\* ------------------------------------------------------------ claims
IsPrefix(s, t) == Len(s) <= Len(t) /\ s = SubSeq(t, 1, Len(s))
Members(g) == {i \in 1..Len(stage1_labels) : stage1_labels[i] = g}
GroupSize(g) == Cardinality(Members(g))
Started(g) == ginfo[g].path # "pending"
Completed(g) == ginfo[g].stop # NoneInt
NClusters == Cardinality(Distinct(stage2_labels))

\* C1: whenever clustering() returns, the returned labels have one entry per
\* sample, every entry is a natural number, the distinct labels are exactly
\* 0..n_clusters-1, and n_clusters equals the final value of the label counter.
C1_DenseLabels ==
  pc = "returned" =>
    /\ Len(result[1]) = n_samples
    /\ \A i \in 1..Len(result[1]) : result[1][i] \in Nat
    /\ Distinct(result[1]) = 0..(result[5] - 1)
    /\ result[5] = current_label

C1_Witness ==
  /\ pc = "returned" /\ result[5] >= 3
  /\ \E g \in DOMAIN ginfo : ginfo[g].path = "split"
  /\ \E g \in DOMAIN ginfo : ginfo[g].path = "small"

\* C2: a visited stage-1 group with fewer than min_cluster_size samples took the
\* too-small path: no k2 candidate was evaluated for it, the counter advanced by
\* exactly 1, and all its members hold the counter's value from before, a label
\* no member of another processed group holds.
C2_SmallGroupSharedLabel ==
  \A g \in DOMAIN ginfo :
    (Started(g) /\ GroupSize(g) < min_cluster_size) =>
      /\ ginfo[g].path = "small"
      /\ ginfo[g].evals = <<>>
      /\ ginfo[g].stop = ginfo[g].start + 1
      /\ \A i \in Members(g) : stage2_labels[i] = ginfo[g].start
      /\ \A h \in DOMAIN ginfo \ {g} :
           Completed(h) => \A i \in Members(h) : stage2_labels[i] # ginfo[g].start

C2_Witness ==
  \E g, h \in DOMAIN ginfo :
    /\ g # h /\ Completed(g) /\ Completed(h)
    /\ ginfo[g].path = "small" /\ GroupSize(g) >= 2
    /\ ginfo[g].start >= 1

\* C3: for a visited group of at least min_cluster_size samples the candidates
\* are evaluated in the order k2 = 1, k2 = 2; once both are evaluated the chosen
\* k2 is 1 only if the silhouette of the 2-way split is <= -1, and is 2 whenever
\* that silhouette is > -1, in which case, once the labels are written, member i
\* holds (counter before) + (its sub-cluster id, 0 or 1) and the counter has
\* advanced by 2.
C3_SplitChoice ==
  \A g \in DOMAIN ginfo :
    (Started(g) /\ GroupSize(g) >= min_cluster_size) =>
      LET r == ginfo[g]
          idx == Indices(stage1_labels, g)
      IN /\ IsPrefix(r.evals, <<1, 2>>)
         /\ r.evals = <<1, 2>> =>
              /\ r.k2 \in {1, 2}
              /\ r.k2 = 1 => r.sil <= Sentinel
              /\ r.sil > Sentinel => r.k2 = 2
         /\ (Completed(g) /\ r.sil > Sentinel) =>
              /\ r.evals = <<1, 2>>
              /\ r.stop = r.start + 2
              /\ \A j \in 1..Len(idx) :
                   /\ r.sub[j] \in {0, 1}
                   /\ stage2_labels[idx[j]] = r.start + r.sub[j]

C3_Witness ==
  \E g \in DOMAIN ginfo :
    /\ GroupSize(g) >= min_cluster_size
    /\ Completed(g) /\ ginfo[g].evals = <<1, 2>> /\ ginfo[g].k2 = 2
    /\ ginfo[g].start >= 1
    /\ Distinct(ginfo[g].sub) = {0, 1}

\* C4: a visited group of exactly min_cluster_size samples is on the split
\* path, never the too-small path: k2 = 1 is evaluated, then k2 = 2, and the
\* evaluation is incomplete only while it is under way or after it raised.
C4_BoundaryInclusive ==
  \A g \in DOMAIN ginfo :
    (Started(g) /\ GroupSize(g) = min_cluster_size) =>
      /\ ginfo[g].path = "split"
      /\ IsPrefix(ginfo[g].evals, <<1, 2>>)
      /\ ginfo[g].evals # <<1, 2>> => pc \in {"k2_1", "k2_2", "error"}

C4_Witness ==
  \E g \in DOMAIN ginfo :
    /\ GroupSize(g) = min_cluster_size /\ Completed(g)
    /\ ginfo[g].evals = <<1, 2>> /\ ginfo[g].k2 = 2

\* Groups are visited in ascending id order; processed groups hold ascending,
\* disjoint label ranges.
AscendingAllocation ==
  /\ \A i, j \in 1..Len(todo) : i < j => todo[i] < todo[j]
  /\ \A g \in DOMAIN ginfo : \A i \in 1..Len(todo) : Started(g) => g <= todo[i]
  /\ \A g, h \in DOMAIN ginfo :
       (g < h /\ Completed(g) /\ Completed(h)) =>
         \A i \in Members(g) : \A j \in Members(h) : stage2_labels[i] < stage2_labels[j]

\* C6: in every step the label counter does not decrease, and after the step
\* the groups still to visit are in ascending id order behind every visited
\* one, and for processed groups g < h every label of g is below every label
\* of h.
C6_MonotoneAllocation ==
  [][current_label' >= current_label /\ AscendingAllocation']_vars

C6_Witness ==
  /\ pc = "returned"
  /\ \E g, h \in DOMAIN ginfo :
       /\ g < h /\ GroupSize(g) >= 1 /\ GroupSize(h) >= 1
       /\ ginfo[g].k2 = 2

InputInvalid ==
  \/ n_rows = 0
  \/ Len(l1file) # Len(Layer1Columns)
  \/ Len(l2file) # Len(Layer2Columns)
  \/ stage1_k > n_rows

\* C7 (as claimed): once Stage 2 has finished with exactly 1 or exactly N
\* distinct labels, the run does not end in an exception of the quality
\* scores: it returns, with the silhouette flagged undefined.
C7_UndefinedMetricsReported ==
  (/\ ~InputInvalid
   /\ pc \in {"returned", "error"}
   /\ err \in {"", "silhouette_score:113"}
   /\ NClusters \in {1, n_samples})
  => (pc = "returned" /\ result[2] = NoSil)

\* The scenario's groups by size
SizeIs(g, k) == GroupSize(g) = ScenarioSizes[k]
Evaluated12(g) ==
  /\ ginfo[g].path = "split"
  /\ IsPrefix(ginfo[g].evals, <<1, 2>>)
  /\ ginfo[g].evals # <<1, 2>> => pc \in {"k2_1", "k2_2", "error"}

\* C5 (as claimed): in the scenario the size-15 group is not subdivided (no k2
\* candidate, one shared label), the 40- and 35-sample groups are evaluated
\* for k2 = 1 then 2, and a returned cluster count is in 3..5.
C5_ScenarioAsClaimed ==
  min_cluster_size = ScenarioMinClusterSize =>
  /\ \A g \in DOMAIN ginfo :
       Started(g) =>
         /\ SizeIs(g, 3) => /\ ginfo[g].path = "small" /\ ginfo[g].evals = <<>>
                            /\ \A i \in Members(g) : stage2_labels[i] = ginfo[g].start
         /\ (SizeIs(g, 1) \/ SizeIs(g, 2)) => Evaluated12(g)
  /\ pc = "returned" => result[5] \in 3..5

\* C5 (amended): in the scenario all three groups, the size-15 one included
\* (15 is not below min_cluster_size = 15), are evaluated for k2 = 1 then 2,
\* and a returned cluster count is in 3..6.
C5_Scenario ==
  min_cluster_size = ScenarioMinClusterSize =>
  /\ n_samples = 90 /\ stage1_k = 3 /\ min_cluster_size = 15
  /\ {GroupSize(g) : g \in DOMAIN ginfo} = {40, 35, 15}
  /\ \A g \in DOMAIN ginfo : Started(g) => Evaluated12(g)
  /\ pc = "returned" => result[5] \in 3..6

C5_Witness ==
  /\ min_cluster_size = ScenarioMinClusterSize
  /\ pc = "returned"
  /\ \A g \in DOMAIN ginfo : Completed(g) /\ ginfo[g].evals = <<1, 2>>
  /\ result[5] = 6

\* C8 (as claimed): with an empty dataset, a Layer-1 or Layer-2 width other
\* than D1 / D2, or stage1_k above the sample count, Stage-1 k-means never
\* produces labels and nothing is returned.
C8_InvalidInputAborts ==
  InputInvalid => (stage1_labels = None /\ stage2_labels = None /\ result = None)

\* C10 (as claimed): the matrix standardized for Stage 1 holds every column
\* of the provider's Layer-1 vector, the area included.
C10_AllLayer1ColumnsUsed ==
  (stage1_labels # None /\ l1file = Layer1Columns) => layer1_features = Layer1Columns

WeightsDone == pc = "weighted"
D2 == Len(layer2_features)
One == <<1, 1>>
\* the normalization divided by a zero sum
DividedByZero == \E i \in 1..Len(weights) : IsNaN(weights[i])
SumsToOne ==
  /\ Len(weights) = D2
  /\ ~DividedByZero
  /\ RatSum(weights) = One
  /\ \A i, j \in 1..(D2 - 2) : weights[i] = weights[j]
LastTwoProportional ==
  \A i \in (D2 - 1)..D2 :
    \E j \in 1..(D2 - 2) : weights[i] = RatMul(Val(weight_centroid), weights[j])
WeightShape == SumsToOne /\ LastTwoProportional

\* C9 (as claimed): for every weight_centroid >= 0 and every width D2 >= 2 the
\* weight vector sums to 1, its first D2-2 entries are equal, each of its last
\* two entries is weight_centroid times one of the first entries, and the
\* normalization did not divide by zero.
C9_WeightVectorAsClaimed == (WeightsDone /\ D2 >= 2) => WeightShape

\* C9 (amended): for every weight_centroid >= 0 and every width D2 >= 2 except
\* the pair D2 = 2, weight_centroid = 0, the weight vector sums to 1 without a
\* division by zero and its first D2-2 entries are equal; for D2 >= 3 each of
\* its last two entries is weight_centroid times one of the first entries.
C9_WeightVector ==
  (WeightsDone /\ D2 >= 2 /\ ~(D2 = 2 /\ Val(weight_centroid) = <<0, 1>>)) =>
    /\ SumsToOne
    /\ D2 >= 3 => LastTwoProportional

C9_Witness ==
  /\ WeightsDone /\ D2 >= 4
  /\ Val(weight_centroid) = <<2, 3>>
  /\ weights[1] # weights[D2]

NonEmptyGroups == {g \in DOMAIN ginfo : GroupSize(g) >= 1}
LabelsOf(g) == {stage2_labels[i] : i \in Members(g)}

\* C13: when clustering() returns, Stage 2 has written every sample's label
\* exactly once, two samples with the same final label have the same stage-1
\* label, every non-empty stage-1 group holds 1 or 2 distinct final labels, and
\* the returned cluster count lies between G and 2*G, G the number of
\* non-empty stage-1 groups.
C13_Refinement ==
  pc = "returned" =>
    /\ \A i \in 1..n_samples : writes[i] = 1
    /\ \A i, j \in 1..n_samples :
         stage2_labels[i] = stage2_labels[j] => stage1_labels[i] = stage1_labels[j]
    /\ \A g \in NonEmptyGroups : Cardinality(LabelsOf(g)) \in {1, 2}
    /\ Cardinality(NonEmptyGroups) <= result[5]
    /\ result[5] <= 2 * Cardinality(NonEmptyGroups)

C13_Witness ==
  /\ pc = "returned"
  /\ Cardinality(NonEmptyGroups) = 2
  /\ \E g \in NonEmptyGroups : Cardinality(LabelsOf(g)) = 2
  /\ \E g \in NonEmptyGroups : Cardinality(LabelsOf(g)) = 1

Constant(col) == \A i, j \in 1..Len(col) : col[i] = col[j]
AllFinite(m) == \A j \in 1..Len(m) : \A i \in 1..Len(m[j]) : Finite(m[j][i])
\* every constant column of the input is 0 in every row of the output
ZeroWhereConstant(in, out) ==
  \A j \in 1..Len(in) :
    Constant(in[j]) => \A i \in 1..Len(out[j]) : IsZero(out[j][i])
Standardized(in, out) ==
  out # None => Len(out) = Len(in) /\ AllFinite(out) /\ ZeroWhereConstant(in, out)

LoopDone == (pc = "extract" /\ file_idx = Len(image_files)) \/ pc = "provided"
Increasing(s) == \A i, j \in 1..Len(s) : i < j => s[i] < s[j]

\* C12 (as claimed): once the loop of process_dataset is over, the four
\* per-sample lists have the same length and hold the same images in sorted
\* file-name order, and in the returned matrices row i of Layer 1 and row i of
\* Layer 2 are taken from the same image, whichever extraction step raised for
\* the dropped samples.
C12_ListsAligned ==
  /\ LoopDone =>
       /\ hu_moments_list = areas_list
       /\ areas_list = centroids_normalized_list
       /\ centroids_normalized_list = density_list
       /\ Increasing(hu_moments_list)
  /\ pc = "provided" =>
       /\ Len(provided[1]) = Len(provided[2])
       /\ \A i \in 1..Len(provided[1]) :
            provided[1][i][1] = provided[2][i][1] /\ provided[1][i][1] = provided[2][i][2]

====
